---- MODULE Spec2Model ----
(***************************************************************************)
(* Model of run.py: historical ETH / ERC20 balances report.                *)
(*                                                                         *)
(* Strings whose letter case matters (account addresses) are sequences of  *)
(* characters; opaque strings (contracts, symbols) are TLA+ strings.       *)
(* A decimal value n / 10^18 is kept exactly as [mant |-> n, exp |-> -18]. *)
(* A calendar date is kept as the number of days since 1970-01-01.         *)
(***************************************************************************)
EXTENDS Integers, Sequences, FiniteSets, TLC

VARIABLES
    WALLET_ADDRESSES,        \* config.yaml, line 28
    BLOCK_NUMBERS,           \* config.yaml, line 30
    EXCLUDE_TOKEN_CONTRACTS, \* config.yaml, line 31
    pc,                      \* position of the interpreter in main and its callees
    exc,                     \* the exception that ended the run, if any
    ai, bi, ti,              \* loop positions: address, block, token
    resp,                    \* the last response received (`response`)
    date,                    \* main: date
    eth_balance,             \* main: eth_balance
    eth_usd_price,           \* main: eth_usd_price
    usd_price,               \* main: usd_price
    erc20_tokens,            \* main: erc20_tokens (dict, in insertion order)
    current_balance,         \* reconstruct_erc20_balance: current_balance
    token_transfers,         \* reconstruct_erc20_balance: token_transfers
    reconstructed_balance,   \* main: reconstructed_balance
    header,                  \* balances.csv: header row written
    rows,                    \* balances.csv: data rows, in write order
    unthrottled,             \* outbound calls made since the last sleep
    opLog                    \* operations of the current (address, block) iteration

vars == <<WALLET_ADDRESSES, BLOCK_NUMBERS, EXCLUDE_TOKEN_CONTRACTS, pc, exc,
          ai, bi, ti, resp, date, eth_balance, eth_usd_price, usd_price,
          erc20_tokens, current_balance, token_transfers,
          reconstructed_balance, header, rows, unthrottled, opLog>>

config == <<WALLET_ADDRESSES, BLOCK_NUMBERS, EXCLUDE_TOKEN_CONTRACTS>>
loops == <<ai, bi, ti>>
mainLocals == <<date, eth_balance, eth_usd_price, usd_price, erc20_tokens,
                reconstructed_balance>>
reconLocals == <<current_balance, token_transfers>>
csv == <<header, rows>>

----------------------------------------------------------------------------
(* Bounds of the model *)

\* longest record list a response carries
MaxTx == 2
\* largest `value` of a transfer record
MaxValue == 2

(* Program constants *)

\* 10**18 is 10 to the power Decimals
Decimals == 18
\* datetime.utcfromtimestamp(..).strftime('%Y-%m-%d') drops the time of day
SecondsPerDay == 86400
\* response.status_code == 200
HTTP_OK == 200

----------------------------------------------------------------------------
(* Strings with letter case *)

LowerChar(c) ==
    CASE c = "A" -> "a"
      [] c = "B" -> "b"
      [] c = "C" -> "c"
      [] c = "D" -> "d"
      [] OTHER -> c

\* str.lower()
Lower(s) == [i \in DOMAIN s |-> LowerChar(s[i])]

AddrLower == <<"a", "b">>
AddrMixed == <<"A", "b">>
AddrOther == <<"c", "d">>

----------------------------------------------------------------------------
(* Values *)

\* n / 10**18
ScaleDown(n) == [mant |-> n, exp |-> 0 - Decimals]

\* decimal * price
Times(x, p) == [mant |-> x.mant * p, exp |-> x.exp]

IsPositive(x) == x.mant > 0

None == [some |-> FALSE, val |-> 0]
Some(v) == [some |-> TRUE, val |-> v]

\* Python truthiness of a price: None and 0 are falsy
Truthy(p) == p.some /\ p.val # 0

\* `if not usd_price: usd_price = 0`
PriceOrZero(p) == IF Truthy(p) THEN p.val ELSE 0

\* datetime.utcfromtimestamp(int(timestamp)).strftime('%Y-%m-%d')
DateOf(timestamp) == timestamp \div SecondsPerDay

RECURSIVE HexToInt(_)
\* int(result, 16) on the digits after "0x"
HexToInt(digits) ==
    IF digits = <<>> THEN 0
    ELSE 16 * HexToInt(SubSeq(digits, 1, Len(digits) - 1)) + digits[Len(digits)]

----------------------------------------------------------------------------
(* Responses.  One shape for every endpoint:                               *)
(*   status  HTTP status code                                              *)
(*   json    the body decodes as a JSON object                             *)
(*   field   what the object carries under the expected key:               *)
(*           "absent", "string" (an error message), "object", "list"       *)
(*           or "value"                                                    *)
(*   hasTs   (object) the object has a timeStamp                           *)
(*   num     the number carried (timestamp, balance, hex digits' value)    *)
(*   digits  (value) hex digits of an eth_getBalance result                *)
(*   list    (list) the records                                            *)

Response(status, json, field, hasTs, num, digits, list) ==
    [status |-> status, json |-> json, field |-> field, hasTs |-> hasTs,
     num |-> num, digits |-> digits, list |-> list]

NoResponse == Response(0, FALSE, "absent", FALSE, 0, <<>>, <<>>)
NotJson(status) == Response(status, FALSE, "absent", FALSE, 0, <<>>, <<>>)
Missing(status) == Response(status, TRUE, "absent", FALSE, 0, <<>>, <<>>)
ErrorString(status) == Response(status, TRUE, "string", FALSE, 0, <<>>, <<>>)
ListOf(status, l) == Response(status, TRUE, "list", FALSE, 0, <<>>, l)
Number(status, n) == Response(status, TRUE, "value", FALSE, n, <<>>, <<>>)

NoExc == [type |-> "none", in |-> "none"]
Raise(type, fn) == [type |-> type, in |-> fn]

----------------------------------------------------------------------------
(* Records of the block explorer *)

Contracts == {"C1", "C2"}
Symbols == {"S1", "S2"}

\* a tokentx record
TokenTx(contract, symbol, to, from, value) ==
    [contractAddress |-> contract, tokenSymbol |-> symbol,
     to |-> to, from |-> from, value |-> value]

\* a txlistinternal record; contractAddress may be missing
InternalTx(hasContract, contract, type, to, from, value) ==
    [hasContract |-> hasContract, contractAddress |-> contract, type |-> type,
     to |-> to, from |-> from, value |-> value]

\* sequences over S of length at most n
SeqUpTo(S, n) == UNION {[1..k -> S] : k \in 0..n}

----------------------------------------------------------------------------
(* get_erc20_tokens: the fold into a dict *)

\* a list of pairs in place of the dict: every record adds an entry
DictSetAppend(tokens, k, v) == Append(tokens, [contract |-> k, symbol |-> v])

\* tokens[k] = v on a dict kept as a sequence of entries in insertion order
DictSet(tokens, k, v) ==
    IF \E i \in DOMAIN tokens : tokens[i].contract = k
    THEN [i \in DOMAIN tokens |->
            IF tokens[i].contract = k
            THEN [contract |-> k, symbol |-> v]
            ELSE tokens[i]]
    ELSE Append(tokens, [contract |-> k, symbol |-> v])

RECURSIVE FoldTokens(_)
\* for tx in transactions: tokens[tx['contractAddress']] = tx['tokenSymbol']
FoldTokens(transactions) ==
    IF transactions = <<>> THEN <<>>
    ELSE LET n == Len(transactions)
         IN DictSet(FoldTokens(SubSeq(transactions, 1, n - 1)),
                    transactions[n].contractAddress,
                    transactions[n].tokenSymbol)

----------------------------------------------------------------------------
(* reconstruct_erc20_balance: the two loops *)

\* if tx['to'] == address.lower(): ... elif tx['from'] == address.lower(): ...
Direction(tx, address) ==
    IF tx.to = Lower(address) THEN "in"
    ELSE IF tx.from = Lower(address) THEN "out"
    ELSE "none"

\* current_balance -= int(tx['value']) / current_balance += int(tx['value'])
Undo(balance, tx, address) ==
    CASE Direction(tx, address) = "in" -> balance - tx.value
      [] Direction(tx, address) = "out" -> balance + tx.value
      [] OTHER -> balance

\* if tx['tokenSymbol'] == symbol
TokenMatches(tx, symbol) == tx.tokenSymbol = symbol

\* if 'contractAddress' in tx and tx['contractAddress'] == contract:
\*     if tx['type'] == "call":
InternalMatches(tx, contract) ==
    tx.hasContract /\ tx.contractAddress = contract /\ tx.type = "call"

RECURSIVE TokenLoopBody(_, _, _, _)
TokenLoopBody(balance, txs, symbol, address) ==
    IF txs = <<>> THEN balance
    ELSE TokenLoopBody(
            IF TokenMatches(Head(txs), symbol)
            THEN Undo(balance, Head(txs), address)
            ELSE balance,
            Tail(txs), symbol, address)

RECURSIVE InternalLoopBody(_, _, _, _)
InternalLoopBody(balance, txs, contract, address) ==
    IF txs = <<>> THEN balance
    ELSE InternalLoopBody(
            IF InternalMatches(Head(txs), contract)
            THEN Undo(balance, Head(txs), address)
            ELSE balance,
            Tail(txs), contract, address)

\* lines 150-166
ReconstructBalance(address, contract, symbol, current, tokenTxs, internalTxs) ==
    ScaleDown(
        InternalLoopBody(TokenLoopBody(current, tokenTxs, symbol, address),
                         internalTxs, contract, address))

----------------------------------------------------------------------------
(* What each function makes of the response it received.  Each returns      *)
(* [raises |-> the exception type or "none", value |-> the value returned]. *)

Returns(v) == [raises |-> "none", value |-> v]
Raises(type) == [raises |-> type, value |-> 0]

\* response.json().get('result', {}).get('timeStamp', 0)
TimestampOf(r) == IF r.field = "object" /\ r.hasTs THEN r.num ELSE 0

\* block_to_date, lines 50-51
BlockToDate(r) ==
    IF ~r.json THEN Raises("JSONDecodeError")
    ELSE IF r.field \notin {"absent", "object"} THEN Raises("AttributeError")
    ELSE Returns(DateOf(TimestampOf(r)))

\* the int 0 of `return 0`
Zero == [mant |-> 0, exp |-> 0]

\* get_eth_balance, lines 69-74
GetEthBalance(r) ==
    IF ~r.json THEN Raises("JSONDecodeError")
    ELSE IF r.field = "value" /\ r.digits # <<>>
         THEN Returns(ScaleDown(HexToInt(r.digits)))
         ELSE Returns(Zero)

\* get_erc20_tokens, lines 93-98
GetErc20Tokens(r) ==
    IF r.status = HTTP_OK
    THEN IF ~r.json THEN Raises("JSONDecodeError")
         ELSE IF r.field = "absent" THEN Returns(<<>>)
         ELSE IF r.field = "list" THEN Returns(FoldTokens(r.list))
         ELSE Raises("TypeError")
    ELSE Returns(<<>>)

\* int(response.json().get('result', '0')), line 116
CurrentBalance(r) ==
    IF ~r.json THEN Raises("JSONDecodeError")
    ELSE IF r.field = "absent" THEN Returns(0)
    ELSE IF r.field = "value" THEN Returns(r.num)
    ELSE Raises("ValueError")

\* response.json().get('result', []), lines 132 and 148
Transfers(r) ==
    IF ~r.json THEN Raises("JSONDecodeError")
    ELSE IF r.field = "absent" THEN Returns([isList |-> TRUE, list |-> <<>>])
    ELSE Returns([isList |-> r.field = "list", list |-> r.list])

NoTransfers == [isList |-> TRUE, list |-> <<>>]

\* get_token_price_on_date_cryptocompare, lines 186-191
GetTokenPrice(r) ==
    IF r.status = HTTP_OK
    THEN IF ~r.json THEN Raises("JSONDecodeError")
         ELSE IF r.field = "list" /\ r.list # <<>>
              THEN Returns(IF r.list[1].hasClose
                           THEN Some(r.list[1].close)
                           ELSE None)
              ELSE Returns(None)
    ELSE Returns(None)

----------------------------------------------------------------------------
(* main: helpers *)

\* the exclusion list ignored
IsExcludedNever(contract) == FALSE

\* if contract in EXCLUDE_TOKEN_CONTRACTS
IsExcluded(contract) == contract \in EXCLUDE_TOKEN_CONTRACTS

\* if reconstructed_balance > 0
ShouldWrite(balance) == IsPositive(balance)

Row(address, block, balance, ticker, contract, usd) ==
    [Address |-> address, Block |-> block, Balance |-> balance,
     Ticker |-> ticker, Contract |-> contract, USD |-> usd]

\* main with the price of ETH fetched before the balance
MainSequencePriceFirst(step) ==
    CASE step = "block_to_date" -> "eth_price_call"
      [] step = "eth_price" -> "eth_call"
      [] step = "get_eth_balance" -> "native_row"
      [] step = "native_row" -> "discover_call"
      [] step = "get_erc20_tokens" -> "tok_loop"
      [] step = "reconstruct_erc20_balance" -> "tok_price_call"
      [] step = "token_price" -> "token_row"
      [] step = "token_row" -> "tok_loop"

\* the statement main goes on with once `step` has returned
MainSequence(step) ==
    CASE step = "block_to_date" -> "eth_call"
      [] step = "get_eth_balance" -> "eth_price_call"
      [] step = "eth_price" -> "native_row"
      [] step = "native_row" -> "discover_call"
      [] step = "get_erc20_tokens" -> "tok_loop"
      [] step = "reconstruct_erc20_balance" -> "tok_price_call"
      [] step = "token_price" -> "token_row"
      [] step = "token_row" -> "tok_loop"

address == WALLET_ADDRESSES[ai]
block_number == BLOCK_NUMBERS[bi]
contract == erc20_tokens[ti].contract
symbol == erc20_tokens[ti].symbol

Op(op, arg) == [op |-> op, arg |-> arg]

----------------------------------------------------------------------------
(* The responses the services may give *)

Object(status, hasTs, ts) == Response(status, TRUE, "object", hasTs, ts, <<>>, <<>>)
Hex(digits) == Response(HTTP_OK, TRUE, "value", FALSE, 0, digits, <<>>)
Close(hasClose, close) == [hasClose |-> hasClose, close |-> close]

BtdResponses ==
    {NotJson(502), Missing(HTTP_OK), ErrorString(HTTP_OK),
     Object(HTTP_OK, FALSE, 0),
     Object(HTTP_OK, TRUE, 2 * SecondsPerDay - 1)}

EthResponses ==
    {NotJson(502), Missing(HTTP_OK), Hex(<<1, 0>>)}

PriceResponses ==
    {NotJson(500), NotJson(HTTP_OK), ListOf(HTTP_OK, <<>>),
     ListOf(HTTP_OK, <<Close(TRUE, 2)>>)}

\* records of the token-transfer history of `a`, as token discovery reads
\* them: two symbols seen for C1, and C2 sharing a symbol with C1
DiscoverRecords(a) ==
    {TokenTx("C1", "S1", Lower(a), AddrOther, 1),
     TokenTx("C1", "S2", Lower(a), AddrOther, 1),
     TokenTx("C2", "S1", AddrOther, Lower(a), 1)}

DiscoverResponses(a) ==
    {NotJson(HTTP_OK), Missing(HTTP_OK), ErrorString(HTTP_OK),
     ListOf(500, <<TokenTx("C1", "S1", Lower(a), AddrOther, 1)>>)}
    \cup {ListOf(HTTP_OK, l) : l \in SeqUpTo(DiscoverRecords(a), MaxTx)}

BalanceResponses ==
    {NotJson(HTTP_OK), Missing(HTTP_OK), ErrorString(HTTP_OK), Number(HTTP_OK, 1)}

TokenTxResponses(a, c, s) ==
    {Missing(HTTP_OK), ErrorString(HTTP_OK),
     ListOf(HTTP_OK, <<TokenTx(c, s, Lower(a), AddrOther, 1)>>)}

InternalTxResponses(a, c) ==
    {NotJson(HTTP_OK), ErrorString(HTTP_OK), ListOf(HTTP_OK, <<>>),
     ListOf(HTTP_OK, <<InternalTx(TRUE, c, "call", AddrOther, Lower(a), 1)>>)}

----------------------------------------------------------------------------
(* Calls *)

\* requests.get / requests.post: the transport fails and the call raises, or
\* a response comes back
Request(responses, fn, next) ==
    /\ unthrottled' = unthrottled + 1
    /\ \/ /\ pc' = "crashed"
          /\ exc' = Raise("ConnectionError", fn)
          /\ resp' = resp
       \/ \E r \in responses :
             /\ resp' = r
             /\ pc' = next
             /\ exc' = exc

\* sleep(RATE_LIMIT_DELAY)
Sleep == unthrottled' = 0

\* the function returns to main, or its exception leaves main
Return(result, step, fn) ==
    /\ resp' = resp
    /\ IF result.raises = "none"
       THEN pc' = MainSequence(step) /\ exc' = exc
       ELSE pc' = "crashed" /\ exc' = Raise(result.raises, fn)

\* what the caller's variable holds after `x = f(..)`
Assigned(result, old) == IF result.raises = "none" THEN result.value ELSE old

----------------------------------------------------------------------------
(* main *)

\* lines 195-199: open balances.csv, write the header
Start ==
    /\ pc = "start"
    /\ header' = TRUE
    /\ pc' = "addr_loop"
    /\ UNCHANGED <<config, exc, loops, resp, mainLocals, reconLocals, rows,
                   unthrottled, opLog>>

\* line 201: for address in WALLET_ADDRESSES; line 256 when exhausted
AddrLoop ==
    /\ pc = "addr_loop"
    /\ IF ai < Len(WALLET_ADDRESSES)
       THEN /\ ai' = ai + 1
            /\ bi' = 0
            /\ pc' = "block_loop"
       ELSE /\ pc' = "done"
            /\ UNCHANGED <<ai, bi>>
    /\ UNCHANGED <<config, exc, ti, resp, mainLocals, reconLocals, csv,
                   unthrottled, opLog>>

\* line 203: for block_number in BLOCK_NUMBERS
BlockLoop ==
    /\ pc = "block_loop"
    /\ IF bi < Len(BLOCK_NUMBERS)
       THEN /\ bi' = bi + 1
            /\ opLog' = <<>>
            /\ pc' = "btd_call"
       ELSE /\ pc' = "addr_loop"
            /\ UNCHANGED <<bi, opLog>>
    /\ UNCHANGED <<config, exc, ai, ti, resp, mainLocals, reconLocals, csv,
                   unthrottled>>

\* line 204 -> line 46
BtdCall ==
    /\ pc = "btd_call"
    /\ Request(BtdResponses, "block_to_date", "btd_return")
    /\ opLog' = Append(opLog, Op("date", ""))
    /\ UNCHANGED <<config, loops, mainLocals, reconLocals, csv>>

\* lines 48-51
BtdReturn ==
    /\ pc = "btd_return"
    /\ Sleep
    /\ Return(BlockToDate(resp), "block_to_date", "block_to_date")
    /\ date' = Assigned(BlockToDate(resp), date)
    /\ UNCHANGED <<config, loops, eth_balance, eth_usd_price, usd_price,
                   erc20_tokens, reconstructed_balance, reconLocals, csv, opLog>>

\* line 208 -> line 65
EthCall ==
    /\ pc = "eth_call"
    /\ Request(EthResponses, "get_eth_balance", "eth_return")
    /\ opLog' = Append(opLog, Op("native_balance", ""))
    /\ UNCHANGED <<config, loops, mainLocals, reconLocals, csv>>

\* lines 67-74
EthReturn ==
    /\ pc = "eth_return"
    /\ Sleep
    /\ Return(GetEthBalance(resp), "get_eth_balance", "get_eth_balance")
    /\ eth_balance' = Assigned(GetEthBalance(resp), eth_balance)
    /\ UNCHANGED <<config, loops, date, eth_usd_price, usd_price,
                   erc20_tokens, reconstructed_balance, reconLocals, csv, opLog>>

\* line 211 -> line 182
EthPriceCall ==
    /\ pc = "eth_price_call"
    /\ Request(PriceResponses, "get_token_price_on_date_cryptocompare",
               "eth_price_return")
    /\ opLog' = Append(opLog, Op("native_price", "ETH"))
    /\ UNCHANGED <<config, loops, mainLocals, reconLocals, csv>>

\* lines 184-191
EthPriceReturn ==
    /\ pc = "eth_price_return"
    /\ Sleep
    /\ Return(GetTokenPrice(resp), "eth_price",
              "get_token_price_on_date_cryptocompare")
    /\ eth_usd_price' = Assigned(GetTokenPrice(resp), eth_usd_price)
    /\ UNCHANGED <<config, loops, date, eth_balance, usd_price,
                   erc20_tokens, reconstructed_balance, reconLocals, csv, opLog>>

\* lines 214-226
WriteNativeRow ==
    /\ pc = "native_row"
    /\ eth_usd_price' = Some(PriceOrZero(eth_usd_price))
    /\ rows' = Append(rows, Row(address, block_number, eth_balance, "ETH", "ETH",
                                Times(eth_balance, PriceOrZero(eth_usd_price))))
    /\ opLog' = Append(opLog, Op("native_row", "ETH"))
    /\ pc' = MainSequence("native_row")
    /\ UNCHANGED <<config, exc, loops, resp, date, eth_balance, usd_price,
                   erc20_tokens, reconstructed_balance, reconLocals, header,
                   unthrottled>>

\* line 229 -> line 89
DiscoverCall ==
    /\ pc = "discover_call"
    /\ Request(DiscoverResponses(address), "get_erc20_tokens", "discover_return")
    /\ opLog' = Append(opLog, Op("discover", ""))
    /\ UNCHANGED <<config, loops, mainLocals, reconLocals, csv>>

\* lines 91-98; line 230 starts the iteration over the new dict
DiscoverReturn ==
    /\ pc = "discover_return"
    /\ Sleep
    /\ Return(GetErc20Tokens(resp), "get_erc20_tokens", "get_erc20_tokens")
    /\ erc20_tokens' = Assigned(GetErc20Tokens(resp), erc20_tokens)
    /\ ti' = 0
    /\ UNCHANGED <<config, ai, bi, date, eth_balance, eth_usd_price, usd_price,
                   reconstructed_balance, reconLocals, csv, opLog>>

\* lines 230-233: for contract, symbol in erc20_tokens.items()
TokenLoop ==
    /\ pc = "tok_loop"
    /\ IF ti < Len(erc20_tokens)
       THEN /\ ti' = ti + 1
            /\ pc' = IF IsExcluded(erc20_tokens[ti + 1].contract)
                     THEN "tok_loop" ELSE "recon_cur_call"
       ELSE /\ pc' = "block_loop"
            /\ ti' = ti
    /\ UNCHANGED <<config, exc, ai, bi, resp, mainLocals, reconLocals, csv,
                   unthrottled, opLog>>

\* line 235 -> line 112: the current balance of the token
ReconCurCall ==
    /\ pc = "recon_cur_call"
    /\ Request(BalanceResponses, "reconstruct_erc20_balance", "recon_cur_return")
    /\ opLog' = Append(opLog, Op("reconstruct", contract))
    /\ UNCHANGED <<config, loops, mainLocals, reconLocals, csv>>

\* lines 114-116
ReconCurReturn ==
    /\ pc = "recon_cur_return"
    /\ Sleep
    /\ IF CurrentBalance(resp).raises = "none"
       THEN pc' = "recon_tt_call" /\ exc' = exc
       ELSE /\ pc' = "crashed"
            /\ exc' = Raise(CurrentBalance(resp).raises,
                            "reconstruct_erc20_balance")
    /\ current_balance' = Assigned(CurrentBalance(resp), current_balance)
    /\ UNCHANGED <<config, loops, resp, mainLocals, token_transfers, csv, opLog>>

\* line 129: token transfers up to the block
ReconTtCall ==
    /\ pc = "recon_tt_call"
    /\ Request(TokenTxResponses(address, contract, symbol),
               "reconstruct_erc20_balance", "recon_tt_return")
    /\ UNCHANGED <<config, loops, mainLocals, reconLocals, csv, opLog>>

\* lines 131-132
ReconTtReturn ==
    /\ pc = "recon_tt_return"
    /\ Sleep
    /\ IF Transfers(resp).raises = "none"
       THEN pc' = "recon_it_call" /\ exc' = exc
       ELSE /\ pc' = "crashed"
            /\ exc' = Raise(Transfers(resp).raises, "reconstruct_erc20_balance")
    /\ token_transfers' = Assigned(Transfers(resp), token_transfers)
    /\ UNCHANGED <<config, loops, resp, mainLocals, current_balance, csv, opLog>>

\* line 145: internal transactions up to the block
ReconItCall ==
    /\ pc = "recon_it_call"
    /\ Request(InternalTxResponses(address, contract),
               "reconstruct_erc20_balance", "recon_it_return")
    /\ UNCHANGED <<config, loops, mainLocals, reconLocals, csv, opLog>>

\* lines 148-166: the rest of reconstruct_erc20_balance, on the current
\* balance, the token transfers and the response `r` to the third request.
\* Iterating a string yields its characters, and tx['tokenSymbol'] on a
\* character raises TypeError.
Reconstruct(a, c, s, current, tokenTxs, r) ==
    IF Transfers(r).raises # "none" THEN Raises(Transfers(r).raises)
    ELSE IF ~tokenTxs.isList \/ ~Transfers(r).value.isList
         THEN Raises("TypeError")
         ELSE Returns(ReconstructBalance(a, c, s, current, tokenTxs.list,
                                         Transfers(r).value.list))

\* lines 147-166
ReconItReturn ==
    /\ pc = "recon_it_return"
    /\ Sleep
    /\ LET result == Reconstruct(address, contract, symbol, current_balance,
                                 token_transfers, resp)
       IN /\ Return(result, "reconstruct_erc20_balance",
                    "reconstruct_erc20_balance")
          /\ reconstructed_balance' = Assigned(result, reconstructed_balance)
          /\ IF result.raises = "none"
             THEN current_balance' = 0 /\ token_transfers' = NoTransfers
             ELSE UNCHANGED reconLocals
    /\ UNCHANGED <<config, loops, date, eth_balance, eth_usd_price, usd_price,
                   erc20_tokens, csv, opLog>>

\* line 237 -> line 182
TokenPriceCall ==
    /\ pc = "tok_price_call"
    /\ Request(PriceResponses, "get_token_price_on_date_cryptocompare",
               "tok_price_return")
    /\ opLog' = Append(opLog, Op("token_price", contract))
    /\ UNCHANGED <<config, loops, mainLocals, reconLocals, csv>>

\* lines 184-191
TokenPriceReturn ==
    /\ pc = "tok_price_return"
    /\ Sleep
    /\ Return(GetTokenPrice(resp), "token_price",
              "get_token_price_on_date_cryptocompare")
    /\ usd_price' = Assigned(GetTokenPrice(resp), usd_price)
    /\ UNCHANGED <<config, loops, date, eth_balance, eth_usd_price,
                   erc20_tokens, reconstructed_balance, reconLocals, csv, opLog>>

\* lines 240-254
WriteTokenRow ==
    /\ pc = "token_row"
    /\ usd_price' = Some(PriceOrZero(usd_price))
    /\ IF ShouldWrite(reconstructed_balance)
       THEN /\ rows' = Append(rows,
                  Row(address, block_number, reconstructed_balance, symbol,
                      contract,
                      Times(reconstructed_balance, PriceOrZero(usd_price))))
            /\ opLog' = Append(opLog, Op("token_row", contract))
       ELSE UNCHANGED <<rows, opLog>>
    /\ pc' = MainSequence("token_row")
    /\ UNCHANGED <<config, exc, loops, resp, date, eth_balance, eth_usd_price,
                   erc20_tokens, reconstructed_balance, reconLocals, header,
                   unthrottled>>

----------------------------------------------------------------------------
(* The run of the script *)

\* lines 25-32: the settings a run may be given
Configs ==
    {[addresses |-> <<AddrMixed, AddrOther>>, blocks |-> <<1>>,
      exclude |-> {"C2", "C3"}],
     [addresses |-> <<AddrMixed>>, blocks |-> <<2, 2>>,
      exclude |-> {"C2"}]}

Init ==
    /\ \E c \in Configs :
          /\ WALLET_ADDRESSES = c.addresses
          /\ BLOCK_NUMBERS = c.blocks
          /\ EXCLUDE_TOKEN_CONTRACTS = c.exclude
    /\ pc = "start"
    /\ exc = NoExc
    /\ ai = 0
    /\ bi = 0
    /\ ti = 0
    /\ resp = NoResponse
    /\ date = 0
    /\ eth_balance = Zero
    /\ eth_usd_price = None
    /\ usd_price = None
    /\ erc20_tokens = <<>>
    /\ current_balance = 0
    /\ token_transfers = NoTransfers
    /\ reconstructed_balance = Zero
    /\ header = FALSE
    /\ rows = <<>>
    /\ unthrottled = 0
    /\ opLog = <<>>

Next ==
    \/ Start
    \/ AddrLoop
    \/ BlockLoop
    \/ BtdCall
    \/ BtdReturn
    \/ EthCall
    \/ EthReturn
    \/ EthPriceCall
    \/ EthPriceReturn
    \/ WriteNativeRow
    \/ DiscoverCall
    \/ DiscoverReturn
    \/ TokenLoop
    \/ ReconCurCall
    \/ ReconCurReturn
    \/ ReconTtCall
    \/ ReconTtReturn
    \/ ReconItCall
    \/ ReconItReturn
    \/ TokenPriceCall
    \/ TokenPriceReturn
    \/ WriteTokenRow

Spec == Init /\ [][Next]_vars

----------------------------------------------------------------------------
(* reconstruct_erc20_balance on its own: the loops of lines 150-166 on      *)
(* every current balance and every pair of fetched record lists within the  *)
(* bounds, entered where the third response has just arrived.               *)

Parties == {AddrLower, AddrMixed, AddrOther}

FnTokenTxs ==
    {TokenTx("C2", s, to, from, v) :
        s \in Symbols, to \in Parties, from \in Parties, v \in 1..MaxValue}

FnInternalTxs ==
    {InternalTx(h[1], h[2], t, to, from, v) :
        h \in {<<FALSE, "">>, <<TRUE, "C1">>, <<TRUE, "C2">>},
        t \in {"call", "create"},
        to \in Parties, from \in Parties, v \in 1..MaxValue}

InitFn ==
    /\ \E a \in {AddrLower, AddrMixed} : WALLET_ADDRESSES = <<a>>
    /\ BLOCK_NUMBERS = <<1>>
    /\ EXCLUDE_TOKEN_CONTRACTS = {}
    /\ pc = "recon_it_return"
    /\ exc = NoExc
    /\ ai = 1
    /\ bi = 1
    /\ ti = 1
    /\ date = 0
    /\ eth_balance = Zero
    /\ eth_usd_price = Some(0)
    /\ usd_price = None
    /\ erc20_tokens = <<[contract |-> "C1", symbol |-> "S1"]>>
    /\ current_balance \in 0..MaxValue
    /\ \E n \in 0..MaxTx :
          /\ \E tt \in SeqUpTo(FnTokenTxs, n) :
                token_transfers = [isList |-> TRUE, list |-> tt]
          /\ \E it \in SeqUpTo(FnInternalTxs, MaxTx - n) :
                resp = ListOf(HTTP_OK, it)
    /\ reconstructed_balance = Zero
    /\ header = TRUE
    /\ rows = <<Row(WALLET_ADDRESSES[1], 1, Zero, "ETH", "ETH", Zero)>>
    /\ unthrottled = 1
    /\ opLog = <<Op("date", ""), Op("native_balance", ""),
                 Op("native_price", "ETH"), Op("native_row", "ETH"),
                 Op("discover", ""), Op("reconstruct", "C1")>>

NextFn == ReconItReturn

SpecFn == InitFn /\ [][NextFn]_vars

----------------------------------------------------------------------------
(* Properties *)

RECURSIVE SumOver(_, _)
\* the sum of f[i] over i in I
SumOver(I, f) ==
    IF I = {} THEN 0
    ELSE LET i == CHOOSE x \in I : TRUE
         IN f[i] + SumOver(I \ {i}, f)

\* the sum of `value` over the records of txs at the positions I
SumValues(txs, I) == SumOver(I, [i \in DOMAIN txs |-> txs[i].value])

\* positions of the matching token-transfer records
MatchingToken(txs, s) == {i \in DOMAIN txs : txs[i].tokenSymbol = s}

\* positions of the matching internal records
MatchingInternal(txs, c) ==
    {i \in DOMAIN txs :
        txs[i].hasContract /\ txs[i].contractAddress = c /\ txs[i].type = "call"}

\* reconstruct_erc20_balance takes its last step and returns
ReconstructReturns == pc = "recon_it_return" /\ pc' = "tok_price_call"

\* C1: reconstruct_erc20_balance returns (before scaling) currentBalance minus
\* the sum of value over all matching records in which the address is the
\* receiver plus the sum of value over all matching records in which the
\* address is the sender, a record with the address on both sides included.
\* "Is the receiver / sender" is the comparison the code makes, with the
\* lowercased address.
C1_SumOverAllMatchingRecords ==
    [][ReconstructReturns =>
        LET tt == token_transfers.list
            it == resp.list
            mt == MatchingToken(tt, symbol)
            mi == MatchingInternal(it, contract)
            me == Lower(address)
        IN reconstructed_balance'.mant =
              current_balance
              - SumValues(tt, {i \in mt : tt[i].to = me})
              - SumValues(it, {i \in mi : it[i].to = me})
              + SumValues(tt, {i \in mt : tt[i].from = me})
              + SumValues(it, {i \in mi : it[i].from = me})]_vars

\* the same account, whatever the letter case
SameAccount(x, y) == Lower(x) = Lower(y)

\* C9: a record is counted as incoming exactly when its `to` equals the
\* configured address after lowercase normalization of both, and (not being
\* incoming) as outgoing exactly when its `from` does, for every letter case
\* of the address and of the record's fields.
C9_CaseInsensitiveComparison ==
    [][ReconstructReturns =>
        LET tt == token_transfers.list
            it == resp.list
            mt == MatchingToken(tt, symbol)
            mi == MatchingInternal(it, contract)
            In(tx) == SameAccount(tx.to, address)
            Out(tx) == ~In(tx) /\ SameAccount(tx.from, address)
        IN reconstructed_balance'.mant =
              current_balance
              - SumValues(tt, {i \in mt : In(tt[i])})
              - SumValues(it, {i \in mi : In(it[i])})
              + SumValues(tt, {i \in mt : Out(tt[i])})
              + SumValues(it, {i \in mi : Out(it[i])})]_vars

----------------------------------------------------------------------------

Ended == pc \in {"done", "crashed"}

PriceFn == "get_token_price_on_date_cryptocompare"

IsNative(row) == row.Ticker = "ETH" /\ row.Contract = "ETH"

LastOp == IF opLog = <<>> THEN Op("", "") ELSE opLog[Len(opLog)]

\* the last row written is the row of the token main is at
CurrentTokenRowWritten ==
    /\ rows # <<>>
    /\ rows[Len(rows)].Address = address
    /\ rows[Len(rows)].Block = block_number
    /\ rows[Len(rows)].Contract = contract
    /\ rows[Len(rows)].Ticker = symbol
    /\ rows[Len(rows)].Balance = reconstructed_balance

\* main is through with the token it is at: its iteration came to its end,
\* or the price lookup for it ended the run
TokenHandled ==
    \/ pc = "tok_loop" /\ ti >= 1 /\ ~IsExcluded(contract)
    \/ pc = "crashed" /\ exc.in = PriceFn /\ LastOp.op = "token_price"

\* C2: for every discovered, non-excluded token whose balance was
\* reconstructed, a row is written if and only if the balance is strictly
\* positive, also when no price could be had, and then its USD Value is 0.
C2_RowIffPositiveBalance ==
    TokenHandled =>
        /\ IsPositive(reconstructed_balance) <=> CurrentTokenRowWritten
        /\ (CurrentTokenRowWritten /\ ~Truthy(usd_price))
              => rows[Len(rows)].USD.mant = 0

C4_NoFailureReachesMain == pc # "crashed"

\* C5: every outbound call is followed by one throttle delay before the next
\* call or the end of the run, whether it succeeded or failed.
C5_ThrottleAfterEveryCall ==
    /\ unthrottled <= 1
    /\ Ended => unthrottled = 0

\* the (address, block) pairs in iteration order
Pairs ==
    [k \in 1..(Len(WALLET_ADDRESSES) * Len(BLOCK_NUMBERS)) |->
        [a |-> WALLET_ADDRESSES[((k - 1) \div Len(BLOCK_NUMBERS)) + 1],
         b |-> BLOCK_NUMBERS[((k - 1) % Len(BLOCK_NUMBERS)) + 1]]]

NativeRows == SelectSeq(rows, IsNative)

\* C6: when the run has ended, the output is the header and then, for each
\* address and each configured block in configured order, exactly one native
\* row followed by the token rows of that (address, block).
C6_OneNativeRowPerPairInOrder ==
    Ended =>
        /\ header
        /\ Len(NativeRows) = Len(Pairs)
        /\ \A k \in DOMAIN NativeRows :
              /\ NativeRows[k].Address = Pairs[k].a
              /\ NativeRows[k].Block = Pairs[k].b
        /\ \A i \in DOMAIN rows :
              ~IsNative(rows[i]) =>
                 /\ i > 1
                 /\ rows[i].Address = rows[i - 1].Address
                 /\ rows[i].Block = rows[i - 1].Block


\* the operations every (address, block) iteration starts with
Opening == <<"date", "native_balance", "native_price", "native_row", "discover">>

\* main is at the tokens of the current (address, block)
AtTokens ==
    pc \in {"tok_loop", "recon_cur_call", "recon_cur_return", "recon_tt_call",
            "recon_tt_return", "recon_it_call", "recon_it_return",
            "tok_price_call", "tok_price_return", "token_row"}

\* C7: within each (address, block) iteration the operations occur in the
\* order: resolve date (once), native balance, native price, native row,
\* token discovery (in every iteration, before any token is handled), then
\* per discovered token that is not excluded: reconstruct, price, row; an
\* excluded token is neither reconstructed nor priced.
C7_OperationOrder ==
    /\ \A i \in DOMAIN opLog :
          IF i <= Len(Opening)
          THEN opLog[i].op = Opening[i]
          ELSE /\ opLog[i].arg \notin EXCLUDE_TOKEN_CONTRACTS
               /\ \E k \in DOMAIN erc20_tokens :
                     erc20_tokens[k].contract = opLog[i].arg
               /\ CASE opLog[i].op = "reconstruct" ->
                          opLog[i - 1].op \in {"discover", "token_price", "token_row"}
                    [] opLog[i].op = "token_price" ->
                          opLog[i - 1] = Op("reconstruct", opLog[i].arg)
                    [] opLog[i].op = "token_row" ->
                          opLog[i - 1] = Op("token_price", opLog[i].arg)
                    [] OTHER -> FALSE
    /\ AtTokens => Len(opLog) >= Len(Opening)

\* the second block of an address is through: tokens were discovered again,
\* an excluded one was skipped, another was reconstructed, priced and written
C7_Witness ==
    /\ pc = "block_loop"
    /\ bi = 2
    /\ Len(erc20_tokens) = 2
    /\ IsExcluded(erc20_tokens[1].contract)
    /\ Len(opLog) = Len(Opening) + 3
    /\ LastOp = Op("token_row", erc20_tokens[2].contract)

\* the response carries a timestamp
HasTimestamp(r) == r.json /\ r.field = "object" /\ r.hasTs

\* C8: block_to_date returns the date of the timestamp in the response, and
\* for every response that carries no timestamp it returns the epoch date as
\* a normal result; it raises on no response.
C8_EpochDateWithoutTimestamp ==
    /\ pc = "eth_call" =>
          date = IF HasTimestamp(resp) THEN resp.num \div SecondsPerDay ELSE 0
    /\ ~(pc = "crashed" /\ exc.in = "block_to_date"
            /\ exc.type # "ConnectionError")

\* the contracts of the records
ContractsOf(txs) == {txs[i].contractAddress : i \in DOMAIN txs}

\* the symbol of the last record of the contract
LastSymbol(txs, c) ==
    LET last == CHOOSE i \in DOMAIN txs :
                   /\ txs[i].contractAddress = c
                   /\ \A j \in DOMAIN txs :
                         txs[j].contractAddress = c => j <= i
    IN txs[last].tokenSymbol

\* get_erc20_tokens has just returned
TokensReturned == pc = "tok_loop" /\ ti = 0

\* C10: get_erc20_tokens returns one entry per distinct contractAddress of
\* the fetched records, with the tokenSymbol of the last record of that
\* contract, and the empty mapping on a non-200 response; a response with a
\* record list, and a non-200 response, never make it raise.  main writes at
\* most one token row per contract in each (address, block) iteration.
C10_OneEntryPerContract ==
    /\ TokensReturned =>
          IF resp.status = HTTP_OK
          THEN /\ \A i, j \in DOMAIN erc20_tokens :
                     erc20_tokens[i].contract = erc20_tokens[j].contract => i = j
               /\ {erc20_tokens[i].contract : i \in DOMAIN erc20_tokens}
                     = ContractsOf(resp.list)
               /\ \A i \in DOMAIN erc20_tokens :
                     erc20_tokens[i].symbol
                        = LastSymbol(resp.list, erc20_tokens[i].contract)
          ELSE erc20_tokens = <<>>
    /\ (pc = "crashed" /\ exc.in = "get_erc20_tokens"
           /\ exc.type # "ConnectionError")
          => resp.status = HTTP_OK /\ resp.field # "list"
    /\ \A i, j \in DOMAIN rows :
          (/\ i < j
           /\ ~IsNative(rows[i])
           /\ rows[i].Contract = rows[j].Contract
           /\ rows[i].Address = rows[j].Address
           /\ rows[i].Block = rows[j].Block)
             => \E k \in (i + 1)..(j - 1) : IsNative(rows[k])

\* two records of one contract with different symbols were folded into one
\* entry, which carries the later symbol
C10_Witness ==
    /\ TokensReturned
    /\ resp.status = HTTP_OK
    /\ Len(resp.list) = 2
    /\ resp.list[1].contractAddress = resp.list[2].contractAddress
    /\ resp.list[1].tokenSymbol # resp.list[2].tokenSymbol
    /\ erc20_tokens = <<[contract |-> resp.list[2].contractAddress,
                         symbol |-> resp.list[2].tokenSymbol]>>

====
